---- MODULE Spec2Model ----
(***************************************************************************)
(* Model of OllamaRunner (src/ollama_runner.py): the lifecycle supervisor  *)
(* of one `ollama serve` child process shared by several caller threads.   *)
(*                                                                         *)
(* Every `with self._state_cv:` block is one atomic action, split where    *)
(* the code calls Condition.wait() (which releases the lock).  Everything  *)
(* the code does outside the lock (Popen, poll, HTTP requests, signals,    *)
(* process waits) is an action of its own, so other threads and the child  *)
(* process interleave with it.                                             *)
(*                                                                         *)
(* start() is ensure_ready() without a model (lines 143-145), so a thread  *)
(* that calls either runs the start step and, when ensure_ready was given  *)
(* a model, the pull step; the model argument is first read in line 144    *)
(* and is drawn there.  A call is counted when the thread takes the lock   *)
(* in the first line of the method.                                        *)
(***************************************************************************)
EXTENDS Integers, FiniteSets, Sequences, TLC

\* ---------------------------------------------------------------- bounds
NumThreads == 2      \* caller threads
MaxCalls   == 3      \* total start/stop/ensure_ready calls in one behaviour
MaxSpawns  == 2      \* child processes the OS lets Popen create
MaxPolls   == 3      \* readiness attempts before the deadline has passed

Threads == 1..NumThreads
Procs   == 1..MaxSpawns
NoProc  == 0         \* self._process = None
NoError == "none"    \* start_error / _last_start_error = None
NoThread == 0        \* self._lock is free

VARIABLES
    \* shared fields of OllamaRunner
    process,            \* self._process: NoProc or a process id
    start_in_progress,  \* self._start_in_progress
    stop_in_progress,   \* self._stop_in_progress
    stop_requested,     \* self._stop_requested
    last_start_error,   \* self._last_start_error
    waiters,            \* threads blocked in self._state_cv.wait() (no timeout)
    lock,               \* self._lock: the thread that holds it, or NoThread
    \* the operating system and the server
    proc,               \* child processes: state, readiness, signals received
    spawns,             \* number of successful Popen calls so far
    modelInstalled,     \* the model is in the local registry
    \* per thread
    pc,                 \* position of the thread in the code
    lproc,              \* local variable `process` of start / stop
    err,                \* local variable start_error
    attempt,            \* local variable attempt of _wait_until_ready
    listed,             \* what the listing request of pull_model gave
    \* history
    ncalls,             \* public calls made so far
    nStops,             \* stop() calls made so far
    lateCall,           \* some call was made after another call had returned
    nStartOk,           \* start() calls that have returned
    nStartFail,         \* start() calls that have raised
    lastOp,             \* step in which the latest public call ended
    lastRes,            \* result of the public call that ended last
    stopDuringPoll,     \* a stop() began while the latest start was polling
    stopWaited          \* a stop() has waited for the latest start in line 159

shared == <<process, start_in_progress, stop_in_progress, stop_requested,
            last_start_error>>
env    == <<proc, spawns, modelInstalled>>
locals == <<lproc, err, attempt, listed>>
calls  == <<ncalls, nStops, lateCall>>
rets   == <<nStartOk, nStartFail, lastOp, lastRes>>
hist   == <<calls, rets, stopDuringPoll, stopWaited>>
vars   == <<shared, waiters, lock, env, pc, locals, hist>>

\* ------------------------------------------------------------ the process
Unborn == [st |-> "unborn", ready |-> FALSE, nterm |-> 0]

\* process.poll() is None
Alive(p) == proc[p].st = "alive"

\* `process is not None and process.poll() is None`
Live(h) == h # NoProc /\ Alive(h)

\* variant of FastPath that defers to an in-flight start
FastPathUnlessStarting == Live(process) /\ ~start_in_progress

\* start(), line 67: the 'already running' fast path
FastPath == Live(process)

\* variant of StopBusy that never waits for a running stop()
StopBusyNever == FALSE

\* variant of NotifyAll in which the notification is lost
NotifyNobody == waiters

\* self._state_cv.notify_all(), lines 104, 117, 168, 184: the threads still
\* blocked in wait() afterwards
NotifyAll == {}

\* variant of StartBlocked that does not wait for a running stop()
StartBlockedNever == FALSE

\* start(), line 63: a stop() is running, wait for it
StartBlocked == stop_in_progress

\* variant of StartBusy that does not see the start in flight
StartBusyNever == FALSE

\* start(), line 71: another start() is in flight, wait for it
StartBusy == start_in_progress

\* stop(), line 152: another stop() is running, wait for it
StopBusy == stop_in_progress

\* variant of StopLoopCond that takes any published handle for a live one
StopLoopCondNoPoll(p) == start_in_progress /\ p = NoProc

\* stop(), line 158: keep waiting for the in-flight start
StopLoopCond(p) == start_in_progress /\ ~Live(p)

\* variant of Reconcile that keeps the handle whatever the process state
ReconcileKeep(h) == h

\* start(), lines 115-116: drop the handle of an exited process
Reconcile(h) == IF h # NoProc /\ ~Alive(h) THEN NoProc ELSE h

\* variant of WaitOutcome that gives up after the grace period
WaitOutcomeNoKill(p) == "stop_final"

\* stop(), lines 173-177: process.wait(timeout=10) returned or timed out
WaitOutcome(p) == IF Alive(p) THEN "stop_kill" ELSE "stop_final"

\* variant of KillWaitDone that does not block until the process is gone
KillWaitDoneAtOnce(p) == TRUE

\* stop(), line 178: process.wait() returns once the process has exited
KillWaitDone(p) == ~Alive(p)

PollPcs    == {"poll_check", "poll_alive", "poll_health"}
ClaimedPcs == {"spawn", "publish"} \cup PollPcs
StartPcs   == {"start_w_stop", "start_w_start", "finalize"} \cup ClaimedPcs
StopPcs    == {"stop_w_stop", "stop_w_start", "stop_check", "stop_nothing",
               "stop_term", "stop_wait", "stop_kill", "stop_killwait",
               "stop_final"}
PullPcs    == {"pull_list", "pull_fetch"}

Init ==
    /\ process = NoProc
    /\ start_in_progress = FALSE
    /\ stop_in_progress = FALSE
    /\ stop_requested = FALSE
    /\ last_start_error = NoError
    /\ waiters = {}
    /\ lock = NoThread
    /\ proc = [p \in Procs |-> Unborn]
    /\ spawns = 0
    /\ modelInstalled = FALSE
    /\ pc = [t \in Threads |-> "idle"]
    /\ lproc = [t \in Threads |-> NoProc]
    /\ err = [t \in Threads |-> NoError]
    /\ attempt = [t \in Threads |-> 0]
    /\ listed = [t \in Threads |-> "none"]
    /\ ncalls = 0
    /\ nStops = 0
    /\ lateCall = FALSE
    /\ nStartOk = 0
    /\ nStartFail = 0
    /\ lastOp = "none"
    /\ lastRes = "none"
    /\ stopDuringPoll = FALSE
    /\ stopWaited = FALSE

\* ---------------------------------------------------------------- the lock
\* `with self._state_cv:` entered by thread t: the RLock is free or already
\* held by t
Acquire(t) == lock \in {NoThread, t}

\* a whole `with self._state_cv:` block run by thread t as one step: the
\* lock is taken on entry and is free again when the block is left, be it
\* by its end, a return, a raise or a wait() on the condition variable
WithLock(t) == Acquire(t) /\ lock' = NoThread

\* variant of AfterClaim in which the `with` block of start() extends over
\* the spawn
AfterClaimHeld(t) == t

\* start(), lines 88-91: the holder of the lock once the start is claimed
\* and the `with` block of line 62 has ended
AfterClaim(t) == NoThread

\* ------------------------------------------------------- calls and returns
\* thread t makes a public call: stop() when isStop, else start() or
\* ensure_ready()
Call(t, isStop) ==
    /\ pc[t] = "idle"
    /\ ncalls < MaxCalls
    /\ ncalls' = ncalls + 1
    /\ nStops' = IF isStop THEN nStops + 1 ELSE nStops
    /\ lateCall' = (lateCall \/ lastOp # "none")

\* the public call of thread t ends in step o ("start", "pull" or "stop")
\* with result r ("ok": it returns, otherwise the error it raises); the
\* local variables go out of scope
CallReturns(t, o, r) ==
    /\ pc' = [pc EXCEPT ![t] = "idle"]
    /\ lproc' = [lproc EXCEPT ![t] = NoProc]
    /\ err' = [err EXCEPT ![t] = NoError]
    /\ attempt' = [attempt EXCEPT ![t] = 0]
    /\ listed' = [listed EXCEPT ![t] = "none"]
    /\ lastOp' = o
    /\ lastRes' = r

\* the model argument of ensure_ready: none ("") or the name of a model
Models == {"", "m"}

\* ensure_ready, lines 143-145: pull_model is reached when start() has
\* returned without raising and the model argument is not empty
WantsPull(r, m) == r = "ok" /\ m # ""

\* start() returns (r = "ok") or raises r.  A plain start() ends here, and
\* so does ensure_ready(model) unless it goes on to pull_model.
StartReturns(t, r) ==
    /\ nStartOk' = IF r = "ok" THEN nStartOk + 1 ELSE nStartOk
    /\ nStartFail' = IF r = "ok" THEN nStartFail ELSE nStartFail + 1
    /\ \E m \in Models :
         IF WantsPull(r, m)
           THEN /\ pc' = [pc EXCEPT ![t] = "pull_list"]
                /\ lproc' = [lproc EXCEPT ![t] = NoProc]
                /\ err' = [err EXCEPT ![t] = NoError]
                /\ attempt' = [attempt EXCEPT ![t] = 0]
                /\ UNCHANGED <<listed, lastOp, lastRes>>
           ELSE CallReturns(t, "start", r)

\* ------------------------------------------------------------------ start
\* start(), lines 62-89, from the top of the `while self._stop_in_progress`
\* loop: run on entry and again each time the thread is woken in line 65.
StartLocked(t) ==
    IF StartBlocked
      THEN \* line 65: self._state_cv.wait()
           /\ pc' = [pc EXCEPT ![t] = "start_w_stop"]
           /\ waiters' = waiters \cup {t}
           /\ UNCHANGED <<shared, locals, rets, stopDuringPoll, stopWaited>>
           /\ lock' = NoThread
    ELSE IF FastPath
      THEN \* lines 67-69: already running
           /\ StartReturns(t, "ok")
           /\ UNCHANGED <<shared, waiters, stopDuringPoll, stopWaited>>
           /\ lock' = NoThread
    ELSE IF StartBusy
      THEN \* lines 71-74: wait for the in-flight start
           /\ pc' = [pc EXCEPT ![t] = "start_w_start"]
           /\ waiters' = waiters \cup {t}
           /\ UNCHANGED <<shared, locals, rets, stopDuringPoll, stopWaited>>
           /\ lock' = NoThread
    ELSE IF stop_requested
      THEN \* lines 85-86
           /\ StartReturns(t, "canceled_pre")
           /\ UNCHANGED <<shared, waiters, stopDuringPoll, stopWaited>>
           /\ lock' = NoThread
      ELSE \* lines 88-89: claim the start
           /\ start_in_progress' = TRUE
           /\ last_start_error' = NoError
           /\ pc' = [pc EXCEPT ![t] = "spawn"]
           /\ stopDuringPoll' = FALSE
           /\ stopWaited' = FALSE
           /\ lock' = AfterClaim(t)
           /\ UNCHANGED <<process, stop_in_progress, stop_requested, waiters,
                          locals, rets>>

\* the thread calls start() or ensure_ready() and takes the lock in line 62
StartEnter(t) ==
    /\ Call(t, FALSE)
    /\ Acquire(t)
    /\ StartLocked(t)
    /\ UNCHANGED env

\* the thread was notified while waiting in line 65
StartWakeStop(t) ==
    /\ pc[t] = "start_w_stop"
    /\ t \notin waiters
    /\ Acquire(t)
    /\ StartLocked(t)
    /\ UNCHANGED <<env, calls>>

\* the thread was notified while waiting in line 74 (lines 73-83)
StartWakeStart(t) ==
    /\ pc[t] = "start_w_start"
    /\ t \notin waiters
    /\ IF start_in_progress
         THEN /\ waiters' = waiters \cup {t}
              /\ UNCHANGED <<shared, env, pc, locals, hist>>
         ELSE /\ StartReturns(t, IF Live(process) THEN "ok"
                                 ELSE IF last_start_error # NoError
                                   THEN "other_failed"
                                   ELSE "incomplete")
              /\ UNCHANGED <<shared, waiters, env, calls, stopDuringPoll, stopWaited>>
    /\ WithLock(t)

\* lines 95-99: subprocess.Popen either raises or creates a child process
Spawn(t) ==
    /\ pc[t] = "spawn"
    /\ \/ /\ err' = [err EXCEPT ![t] = "spawn_failed"]
          /\ pc' = [pc EXCEPT ![t] = "finalize"]
          /\ UNCHANGED <<env, lproc>>
       \/ /\ spawns < MaxSpawns
          /\ spawns' = spawns + 1
          /\ proc' = [proc EXCEPT ![spawns + 1].st = "alive"]
          /\ lproc' = [lproc EXCEPT ![t] = spawns + 1]
          /\ pc' = [pc EXCEPT ![t] = "publish"]
          /\ UNCHANGED <<modelInstalled, err>>
    /\ UNCHANGED <<shared, waiters, attempt, listed, hist>>
    /\ UNCHANGED lock

\* lines 102-104: publish the handle and notify_all
Publish(t) ==
    /\ pc[t] = "publish"
    /\ process' = lproc[t]
    /\ waiters' = NotifyAll
    /\ pc' = [pc EXCEPT ![t] = "poll_check"]
    /\ UNCHANGED <<start_in_progress, stop_in_progress, stop_requested,
                   last_start_error, env, locals, hist>>
    /\ WithLock(t)

\* _wait_until_ready, lines 196-201: the deadline test of the while loop
\* (the deadline has passed for certain after MaxPolls attempts), then the
\* check of _stop_requested under the lock
PollCheck(t) ==
    /\ pc[t] = "poll_check"
    /\ \/ /\ err' = [err EXCEPT ![t] = "timeout"]
          /\ pc' = [pc EXCEPT ![t] = "finalize"]
          /\ UNCHANGED <<attempt, lock>>
       \/ /\ attempt[t] < MaxPolls
          /\ attempt' = [attempt EXCEPT ![t] = attempt[t] + 1]
          /\ WithLock(t)
          /\ IF stop_requested
               THEN /\ err' = [err EXCEPT ![t] = "canceled"]
                    /\ pc' = [pc EXCEPT ![t] = "finalize"]
               ELSE /\ pc' = [pc EXCEPT ![t] = "poll_alive"]
                    /\ UNCHANGED err
    /\ UNCHANGED <<shared, waiters, env, lproc, listed, hist>>

\* lines 203-204: process.poll()
PollAlive(t) ==
    /\ pc[t] = "poll_alive"
    /\ IF Alive(lproc[t])
         THEN /\ pc' = [pc EXCEPT ![t] = "poll_health"]
              /\ UNCHANGED err
         ELSE /\ err' = [err EXCEPT ![t] = "exited"]
              /\ pc' = [pc EXCEPT ![t] = "finalize"]
    /\ UNCHANGED <<shared, waiters, env, lproc, attempt, listed, hist>>
    /\ UNCHANGED lock

\* what GET /api/tags can give while process p is polled: a
\* RequestException, a status other than 200, or, from a running server, 200
HealthResponses(p) == {"error", "503"} \cup (IF Alive(p) THEN {"200"} ELSE {})

\* variant of IsReady that takes any HTTP response for success
IsReadyAnyStatus(resp) == resp # "error"

\* _wait_until_ready, line 208: resp.status_code == 200
IsReady(resp) == resp = "200"

\* lines 206-214: GET /api/tags; a RequestException is swallowed, and
\* anything but 200 is followed by time.sleep(2) and the next attempt
PollHealth(t) ==
    /\ pc[t] = "poll_health"
    /\ \E resp \in HealthResponses(lproc[t]) :
         /\ proc' = IF resp = "200"
                      THEN [proc EXCEPT ![lproc[t]].ready = TRUE]
                      ELSE proc
         /\ pc' = [pc EXCEPT ![t] = IF IsReady(resp) THEN "finalize"
                                                     ELSE "poll_check"]
    /\ UNCHANGED <<shared, waiters, spawns, modelInstalled, locals, hist>>
    /\ UNCHANGED lock

\* lines 107-118: the finally block, then start returns or re-raises
Finalize(t) ==
    /\ pc[t] = "finalize"
    /\ start_in_progress' = FALSE
    /\ last_start_error' = err[t]
    /\ process' = Reconcile(process)
    /\ waiters' = NotifyAll
    /\ StartReturns(t, IF err[t] = NoError THEN "ok" ELSE err[t])
    /\ UNCHANGED <<stop_in_progress, stop_requested, env, calls,
                   stopDuringPoll, stopWaited>>
    /\ WithLock(t)

\* ------------------------------------------------------------------- stop
\* stop(), lines 152-160, from the top of the `while self._stop_in_progress`
\* loop: claim the stop, capture the handle, test the second loop
StopLocked(t) ==
    IF StopBusy
      THEN \* line 153: self._state_cv.wait()
           /\ pc' = [pc EXCEPT ![t] = "stop_w_stop"]
           /\ waiters' = waiters \cup {t}
           /\ UNCHANGED <<stop_in_progress, lproc, stopWaited>>
      ELSE \* lines 155-158
           /\ stop_in_progress' = TRUE
           /\ stopWaited' = (stopWaited \/ StopLoopCond(process))
           /\ lproc' = [lproc EXCEPT ![t] = process]
           /\ pc' = [pc EXCEPT ![t] = IF StopLoopCond(process)
                                        THEN "stop_w_start" ELSE "stop_check"]
           /\ UNCHANGED waiters

\* the thread calls stop(): lines 149-150, then the rest of the locked block
StopEnter(t) ==
    /\ Call(t, TRUE)
    /\ stop_requested' = TRUE
    /\ stopDuringPoll' = (stopDuringPoll \/ \E u \in Threads : pc[u] \in PollPcs)
    /\ StopLocked(t)
    /\ UNCHANGED <<process, start_in_progress, last_start_error, env, err,
                   attempt, listed, rets>>
    /\ WithLock(t)

\* the thread was notified while waiting in line 153
StopWakeStop(t) ==
    /\ pc[t] = "stop_w_stop"
    /\ t \notin waiters
    /\ StopLocked(t)
    /\ UNCHANGED <<process, start_in_progress, stop_requested, last_start_error,
                   env, err, attempt, listed, calls, rets, stopDuringPoll>>
    /\ WithLock(t)

\* lines 158-160: wait(timeout=0.1) returned (notified or timed out); the
\* handle is read again and the loop condition tested
StopWakeStart(t) ==
    /\ pc[t] = "stop_w_start"
    /\ lproc' = [lproc EXCEPT ![t] = process]
    /\ pc' = [pc EXCEPT ![t] = IF StopLoopCond(process)
                                 THEN "stop_w_start" ELSE "stop_check"]
    /\ UNCHANGED <<shared, waiters, env, err, attempt, listed, hist>>
    /\ WithLock(t)

\* variant of NothingToStop with the exit test inverted
NothingToStopInverted(p) == p = NoProc \/ Alive(p)

\* stop(), line 162: `process is None or process.poll() is not None`
NothingToStop(p) == ~Live(p)

\* line 162, outside the lock
StopCheck(t) ==
    /\ pc[t] = "stop_check"
    /\ pc' = [pc EXCEPT ![t] = IF NothingToStop(lproc[t]) THEN "stop_nothing"
                                                          ELSE "stop_term"]
    /\ UNCHANGED <<shared, waiters, env, locals, hist>>
    /\ UNCHANGED lock

\* variant of RequestAfterStop in which the request outlives the stop
RequestKept == stop_requested

\* stop(), lines 167 and 183: _stop_requested after the reset
RequestAfterStop == FALSE

\* lines 180-184 and 164-168: the reset both exits of stop() perform
StopReset ==
    /\ process' = NoProc
    /\ stop_in_progress' = FALSE
    /\ stop_requested' = RequestAfterStop
    /\ waiters' = NotifyAll

\* lines 163-169: nothing to stop
StopNothing(t) ==
    /\ pc[t] = "stop_nothing"
    /\ StopReset
    /\ CallReturns(t, "stop", "ok")
    /\ UNCHANGED <<start_in_progress, last_start_error, env, calls, nStartOk,
                   nStartFail, stopDuringPoll, stopWaited>>
    /\ WithLock(t)

\* line 172: process.send_signal(signal.SIGTERM)
StopTerm(t) ==
    /\ pc[t] = "stop_term"
    /\ proc' = [proc EXCEPT ![lproc[t]].nterm = @ + 1]
    /\ pc' = [pc EXCEPT ![t] = "stop_wait"]
    /\ UNCHANGED <<shared, waiters, spawns, modelInstalled, locals, hist>>
    /\ UNCHANGED lock

\* lines 173-175: process.wait(timeout=10) returns once the process has
\* exited, or raises TimeoutExpired while it is still running
StopWait(t) ==
    /\ pc[t] = "stop_wait"
    /\ pc' = [pc EXCEPT ![t] = WaitOutcome(lproc[t])]
    /\ UNCHANGED <<shared, waiters, env, locals, hist>>
    /\ UNCHANGED lock

\* line 177: process.kill(); the exit it causes is a ProcExit step
StopKill(t) ==
    /\ pc[t] = "stop_kill"
    /\ pc' = [pc EXCEPT ![t] = "stop_killwait"]
    /\ UNCHANGED <<shared, waiters, env, locals, hist>>
    /\ UNCHANGED lock

\* line 178: process.wait() blocks until the process has exited
StopKillWait(t) ==
    /\ pc[t] = "stop_killwait"
    /\ KillWaitDone(lproc[t])
    /\ pc' = [pc EXCEPT ![t] = "stop_final"]
    /\ UNCHANGED <<shared, waiters, env, locals, hist>>
    /\ UNCHANGED lock

\* lines 180-186
StopFinal(t) ==
    /\ pc[t] = "stop_final"
    /\ StopReset
    /\ CallReturns(t, "stop", "ok")
    /\ UNCHANGED <<start_in_progress, last_start_error, env, calls, nStartOk,
                   nStartFail, stopDuringPoll, stopWaited>>
    /\ WithLock(t)

\* ------------------------------------------------------------- pull_model
\* a server process is running and can answer HTTP requests
ServerUp == \E p \in Procs : Alive(p)

\* what GET /api/tags can give in the current state: the request fails, or
\* a running server tells whether the model is in its registry
Listings ==
    {"failed"} \cup
    (IF ServerUp THEN {IF modelInstalled THEN "present" ELSE "absent"} ELSE {})

\* variant of ModelPresent that trusts a failed listing
ModelPresentUnlessAbsent(res) == res # "absent"

\* _model_present, lines 220-229: True only when the listing succeeded and
\* names the model; any exception gives False
ModelPresent(res) == res = "present"

\* variant of PullKeeps in which pull_model forgets the server's handle
PullDropsHandle ==
    /\ process' = NoProc
    /\ UNCHANGED <<start_in_progress, stop_in_progress, stop_requested,
                   last_start_error, waiters, proc, spawns>>

\* pull_model, lines 120-135, reads and writes no field of the runner,
\* notifies nobody and sends no signal
PullKeeps == UNCHANGED <<shared, waiters, proc, spawns>>

\* pull_model, lines 129-131: skip the pull when the model is present
PullList(t) ==
    /\ pc[t] = "pull_list"
    /\ \E res \in Listings :
         IF ModelPresent(res)
           THEN CallReturns(t, "pull", "ok")
           ELSE /\ pc' = [pc EXCEPT ![t] = "pull_fetch"]
                /\ listed' = [listed EXCEPT ![t] = res]
                /\ UNCHANGED <<lproc, err, attempt, lastOp, lastRes>>
    /\ PullKeeps
    /\ UNCHANGED <<modelInstalled, calls, nStartOk, nStartFail, stopDuringPoll, stopWaited>>
    /\ UNCHANGED lock

\* lines 133-135: subprocess.run(["ollama", "pull", model], check=True)
PullFetch(t) ==
    /\ pc[t] = "pull_fetch"
    /\ \/ /\ ServerUp
          /\ modelInstalled' = TRUE
          /\ CallReturns(t, "pull", "ok")
       \/ /\ CallReturns(t, "pull", "pull_failed")
          /\ UNCHANGED modelInstalled
    /\ PullKeeps
    /\ UNCHANGED <<calls, nStartOk, nStartFail, stopDuringPoll, stopWaited>>
    /\ UNCHANGED lock

\* ------------------------------------------------------ the child process
\* the child exits: on its own, or after SIGTERM or SIGKILL
ProcExit(p) ==
    /\ Alive(p)
    /\ proc' = [proc EXCEPT ![p].st = "exited"]
    /\ UNCHANGED <<shared, waiters, spawns, modelInstalled, pc, locals, hist>>
    /\ UNCHANGED lock

\* ---------------------------------------------------------- specification
Next ==
    \/ \E t \in Threads : StartEnter(t)
    \/ \E t \in Threads : StartWakeStop(t)
    \/ \E t \in Threads : StartWakeStart(t)
    \/ \E t \in Threads : Spawn(t)
    \/ \E t \in Threads : Publish(t)
    \/ \E t \in Threads : PollCheck(t)
    \/ \E t \in Threads : PollAlive(t)
    \/ \E t \in Threads : PollHealth(t)
    \/ \E t \in Threads : Finalize(t)
    \/ \E t \in Threads : StopEnter(t)
    \/ \E t \in Threads : StopWakeStop(t)
    \/ \E t \in Threads : StopWakeStart(t)
    \/ \E t \in Threads : StopCheck(t)
    \/ \E t \in Threads : StopNothing(t)
    \/ \E t \in Threads : StopTerm(t)
    \/ \E t \in Threads : StopWait(t)
    \/ \E t \in Threads : StopKill(t)
    \/ \E t \in Threads : StopKillWait(t)
    \/ \E t \in Threads : StopFinal(t)
    \/ \E t \in Threads : PullList(t)
    \/ \E t \in Threads : PullFetch(t)
    \/ \E p \in Procs : ProcExit(p)

Spec == Init /\ [][Next]_vars

\* a step of thread t inside a call it has made
ThreadStep(t) ==
    \/ StartWakeStop(t) \/ StartWakeStart(t) \/ Spawn(t) \/ Publish(t)
    \/ PollCheck(t) \/ PollAlive(t) \/ PollHealth(t) \/ Finalize(t)
    \/ StopWakeStop(t) \/ StopWakeStart(t) \/ StopCheck(t) \/ StopNothing(t)
    \/ StopTerm(t) \/ StopWait(t) \/ StopKill(t) \/ StopKillWait(t)
    \/ StopFinal(t) \/ PullList(t) \/ PullFetch(t)

\* the process that was sent SIGKILL in line 177 exits
KilledExit ==
    \E t \in Threads :
      /\ pc[t] = "stop_killwait"
      /\ lproc[t] # NoProc
      /\ ProcExit(lproc[t])

\* every thread inside a call is scheduled again, and a process that was
\* sent SIGKILL exits; nobody is obliged to make a call, and a process that
\* was not killed may run for ever
Fairness ==
    /\ \A t \in Threads : WF_vars(ThreadStep(t))
    /\ WF_vars(KilledExit)

FairSpec == Spec /\ Fairness

TypeOK ==
    /\ process \in Procs \cup {NoProc}
    /\ start_in_progress \in BOOLEAN
    /\ stop_in_progress \in BOOLEAN
    /\ stop_requested \in BOOLEAN
    /\ waiters \subseteq Threads
    /\ lock \in Threads \cup {NoThread}
    /\ spawns \in 0..MaxSpawns
    /\ \A t \in Threads : pc[t] \in {"idle"} \cup StartPcs \cup StopPcs \cup PullPcs
    /\ \A t \in Threads : listed[t] \in {"none", "absent", "failed", "present"}

\* ------------------------------------------------------------ vocabulary
AllIdle == \A t \in Threads : pc[t] = "idle"

AliveProcs == {p \in Procs : Alive(p)}

\* the supervisor state the specification calls Idle
IdleState ==
    /\ process = NoProc
    /\ AliveProcs = {}
    /\ ~start_in_progress
    /\ ~stop_in_progress

\* results with which start() raises
StartFailures == {"spawn_failed", "exited", "timeout", "canceled",
                  "canceled_pre", "other_failed", "incomplete"}

\* in this step a start() returns without raising
StartOkStep == nStartOk' = nStartOk + 1

\* in this step a start() raises r
StartRaisesStep(r) ==
    /\ nStartFail' = nStartFail + 1
    /\ lastOp' = "start"
    /\ lastRes' = r

\* in this step a thread runs the locked block at the top of start(): on
\* entry, or woken from the wait of line 65
StartTakesLock ==
    \/ ncalls' = ncalls + 1 /\ nStops' = nStops
    \/ \E t \in Threads : pc[t] = "start_w_stop" /\ pc'[t] # "start_w_stop"

\* ----------------------------------------------------------------- claims
\* C1: whenever start() returns without raising, the process the handle
\* references has answered a health check with success since it was spawned.
C1_ReturnImpliesReady ==
    [][StartOkStep => (process' # NoProc => proc'[process'].ready)]_vars

\* C2: when every thread calls start() once, all calls overlapping, on an
\* Idle supervisor and nobody calls stop(), there is one spawn and either all
\* calls return or all calls raise.
C2_SameOutcome ==
    (/\ AllIdle
     /\ nStops = 0
     /\ ~lateCall
     /\ ncalls = NumThreads)
    => /\ spawns <= 1
       /\ nStartOk = 0 \/ nStartFail = 0

\* C3: at most one child process spawned by the supervisor is alive, so the
\* handle and the threads' local handles reference at most one live process.
C3_AtMostOneAlive == Cardinality(AliveProcs) <= 1

\* a second process was spawned, after a stop(), and is the only one alive
C3_Witness ==
    /\ spawns = 2
    /\ nStops = 1
    /\ proc[1].nterm = 1
    /\ AliveProcs = {2}
    /\ process = 2

\* C4: startInProgress and stopInProgress are never both true.
C4_NotBothInProgress == ~(start_in_progress /\ stop_in_progress)

\* C5: a start() that was polling for readiness when a stop() began raises
\* the cancellation error (which the finalization records in
\* lastStartError), and once both calls have returned the supervisor is Idle
\* with stopRequested false.
C5_StopCancelsPolling ==
    (stopDuringPoll /\ ~start_in_progress)
    => /\ last_start_error = "canceled"
       /\ (AllIdle /\ ncalls = 2) => (IdleState /\ ~stop_requested)

\* C6: a process receives a termination attempt from at most one stop()
\* call; when no stop() call is running stopRequested and stopInProgress are
\* false, and when the last call to return was a stop() and nothing else is
\* running the handle is absent.
C6_StopIdempotent ==
    /\ \A p \in Procs : proc[p].nterm <= 1
    /\ (\A t \in Threads : pc[t] \notin StopPcs)
         => (~stop_requested /\ ~stop_in_progress)
    /\ (AllIdle /\ lastOp = "stop") => process = NoProc

\* two stop() calls have returned; the one process was sent SIGTERM once
C6_Witness ==
    /\ AllIdle
    /\ spawns = 1
    /\ proc[1].nterm = 1
    /\ ~Alive(1)
    /\ nStops = 2
    /\ lastOp = "stop"

\* C7: from the moment a stop() call has set stopRequested until that call
\* has completed, stopRequested is true.
C7_StopRequestedSticky ==
    \A t \in Threads : pc[t] \in StopPcs => stop_requested

\* C8: after a start() or ensure_ready() has failed in its start step and no
\* call is in flight, the supervisor is Idle and lastStartError is absent.
C8_FailedStartLeavesIdle ==
    (AllIdle /\ lastOp = "start" /\ lastRes \in StartFailures)
    => (IdleState /\ last_start_error = NoError)

\* C9: a start() that takes the lock while the handle is present, its
\* process alive and no stop in progress returns at once: no spawn, no wait,
\* the five shared fields unchanged.
C9_FastPathFrame ==
    [][(StartTakesLock /\ Live(process) /\ ~stop_in_progress)
         => /\ StartOkStep
            /\ \A t \in Threads : pc'[t] \in {pc[t], "idle", "pull_list"}
            /\ waiters' = waiters
            /\ spawns' = spawns
            /\ shared' = shared]_vars

\* a second start(), called after the first had returned, returned at once
C9_Witness ==
    /\ AllIdle
    /\ ncalls = 2
    /\ lateCall
    /\ nStops = 0
    /\ spawns = 1
    /\ nStartOk = 2
    /\ Live(process)

\* C10: a thread that claimed the start leaves start() only through the
\* finalization step, after which startInProgress is false, lastStartError
\* is the attempt's error, a handle that is still present references a live
\* process, no thread is left waiting, and start() raises exactly when there
\* was an error; a process that exited before any successful health check
\* makes start() raise (a startup failure when no stop() was ever called).
C10_Finalization ==
    [][\A t \in Threads :
         /\ (pc[t] \in ClaimedPcs) => (pc'[t] \in ClaimedPcs \cup {"finalize"})
         /\ (pc[t] = "finalize" /\ pc'[t] # "finalize")
            => /\ ~start_in_progress'
               /\ last_start_error' = err[t]
               /\ process' # NoProc => proc'[process'].st = "alive"
               /\ (lproc[t] # NoProc /\ proc'[lproc[t]].st # "alive")
                    => process' # lproc[t]
               /\ waiters' = {}
               /\ (err[t] = NoError) <=> StartOkStep
               /\ (err[t] # NoError) => (StartRaisesStep(err[t]) /\ pc'[t] = "idle")
               /\ (lproc[t] # NoProc /\ ~proc[lproc[t]].ready)
                    => /\ err[t] # NoError
                       /\ (nStops = 0) => err[t] \in {"exited", "timeout"}]_vars

\* start() has raised 'process exited' for a process that never answered a
\* health check, and the handle is absent
C10_Witness ==
    /\ AllIdle
    /\ lastOp = "start"
    /\ lastRes = "exited"
    /\ last_start_error = "exited"
    /\ spawns = 1
    /\ ~proc[1].ready
    /\ process = NoProc
    /\ ~start_in_progress
    /\ nStops = 0

\* the terminate sequence of stop(), lines 171-184
TermPcs == {"stop_term", "stop_wait", "stop_kill", "stop_killwait",
            "stop_final"}

\* in this step the stop() of thread t returns
StopReturnsStep(t) == pc[t] \in {"stop_nothing", "stop_final"} /\ pc'[t] = "idle"

\* C11: a stop() that captured a live process sends SIGTERM before anything
\* else, sends SIGKILL only when the process is still running at the end of
\* the grace period, returns only after the process has exited, and on
\* return the handle is absent and stopInProgress, stopRequested are false.
C11_GracefulThenForced ==
    [][\A t \in Threads :
         /\ (pc'[t] \in TermPcs /\ pc[t] \notin TermPcs)
              => (pc[t] = "stop_check" /\ pc'[t] = "stop_term" /\ Alive(lproc[t]))
         /\ (pc[t] = "stop_term" /\ pc'[t] # "stop_term")
              => /\ pc'[t] = "stop_wait"
                 /\ proc'[lproc[t]].nterm = proc[lproc[t]].nterm + 1
         /\ (pc[t] = "stop_wait" /\ pc'[t] # "stop_wait")
              => /\ proc[lproc[t]].nterm >= 1
                 /\ pc'[t] = IF Alive(lproc[t]) THEN "stop_kill" ELSE "stop_final"
         /\ (pc'[t] = "stop_kill") => (pc[t] \in {"stop_wait", "stop_kill"})
         /\ (pc[t] = "stop_final" /\ pc'[t] # "stop_final")
              => /\ pc'[t] = "idle"
                 /\ proc'[lproc[t]].st = "exited"
                 /\ process' = NoProc
                 /\ ~stop_in_progress'
                 /\ ~stop_requested'
                 /\ lastOp' = "stop" /\ lastRes' = "ok"]_vars

\* SIGKILL was sent to a process that ignored SIGTERM; the process has now
\* exited and stop() is about to return
C11_Witness ==
    \E t \in Threads :
      /\ pc[t] = "stop_killwait"
      /\ lproc[t] # NoProc
      /\ proc[IF lproc[t] = NoProc THEN 1 ELSE lproc[t]].nterm = 1
      /\ ~Alive(IF lproc[t] = NoProc THEN 1 ELSE lproc[t])
      /\ process = lproc[t]
      /\ stop_in_progress

\* C12: ensure_ready fetches the model exactly when start() returned, the
\* model name is not empty and the listing did not report the model: a
\* failed listing counts as 'not reported' and leads to a fetch, a listing
\* that names the model ends the call without a fetch, an empty name ends
\* the call at start()'s return with no listing, no fetch and no error, and
\* a start() that raises ends the call with nothing provisioned.
C12_FetchIffNeeded ==
    [][/\ (nStartFail' = nStartFail + 1)
            => /\ \A t \in Threads : pc'[t] \in PullPcs => pc[t] = pc'[t]
               /\ UNCHANGED env
       /\ (StartOkStep /\ \A t \in Threads : pc'[t] = "pull_list" => pc[t] = "pull_list")
            => (lastOp' = "start" /\ lastRes' = "ok" /\ UNCHANGED env)
       /\ (modelInstalled' # modelInstalled)
            => \E t \in Threads : pc[t] = "pull_fetch" /\ pc'[t] = "idle"
       /\ \A t \in Threads :
            /\ (pc'[t] = "pull_list" /\ pc[t] # "pull_list")
                 => (StartOkStep /\ pc[t] \in StartPcs \cup {"idle"})
            /\ (pc[t] = "pull_list" /\ pc'[t] # "pull_list")
                 => \/ /\ pc'[t] = "idle"
                       /\ ServerUp /\ modelInstalled
                       /\ lastOp' = "pull" /\ lastRes' = "ok"
                       /\ UNCHANGED env
                    \/ /\ pc'[t] = "pull_fetch"
                       /\ listed'[t] \in {"absent", "failed"}
                       /\ listed'[t] = "absent" => ~modelInstalled
            /\ (pc'[t] = "pull_fetch") => (pc[t] \in PullPcs)]_vars

\* the model is installed and a server is running, the listing request
\* failed all the same, and the thread is about to fetch the model again
C12_Witness ==
    \E t \in Threads :
      /\ pc[t] = "pull_fetch"
      /\ listed[t] = "failed"
      /\ modelInstalled
      /\ ServerUp

\* C13: a fetch that fails makes ensure_ready raise and changes nothing of
\* the supervisor: the handle, the running process, the three flags and
\* lastStartError are after the failing step what they were before it (and
\* the listing step before it changed nothing either), and no signal is
\* sent to any process.
C13_PullFailureFrame ==
    [][\A t \in Threads :
         /\ (pc[t] = "pull_fetch" /\ pc'[t] = "idle" /\ ~modelInstalled')
              => /\ lastOp' = "pull" /\ lastRes' = "pull_failed"
                 /\ UNCHANGED <<shared, waiters, proc, spawns>>
         /\ (pc[t] \in PullPcs /\ pc'[t] # pc[t])
              => UNCHANGED <<shared, waiters, proc, spawns>>]_vars

\* ensure_ready has raised because the fetch failed; the server it started
\* is running, ready, unsignalled and still referenced by the handle
C13_Witness ==
    /\ AllIdle
    /\ lastOp = "pull" /\ lastRes = "pull_failed"
    /\ nStops = 0
    /\ ~modelInstalled
    /\ process # NoProc
    /\ proc[IF process = NoProc THEN 1 ELSE process] =
          [st |-> "alive", ready |-> TRUE, nterm |-> 0]
    /\ last_start_error = NoError

\* C14: a stop() that begins while a start is in progress with no live
\* handle published reaches its liveness test only once the start has
\* published a live handle or has finished; and when a stop() returns, the
\* handle is absent and no child process is running, the one spawned by
\* that start included.
C14_StopWaitsForStart ==
    [][\A t \in Threads :
         /\ (pc'[t] = "stop_check" /\ pc[t] # "stop_check")
              => /\ ~start_in_progress \/ Live(process)
                 /\ lproc'[t] = process
         /\ (pc[t] = "stop_w_start" /\ pc'[t] # "stop_w_start")
              => pc'[t] = "stop_check"
         /\ StopReturnsStep(t)
              => (process' = NoProc /\ \A p \in Procs : proc'[p].st # "alive")]_vars

\* a stop() waited for a start that had not published a handle, then sent
\* SIGTERM to the process that start spawned; the process has exited, the
\* handle is absent and both calls have ended
C14_Witness ==
    /\ AllIdle
    /\ stopWaited
    /\ lastOp = "stop"
    /\ spawns = 1
    /\ proc[1] = [st |-> "exited", ready |-> FALSE, nterm |-> 1]
    /\ process = NoProc

\* threads between claiming a start (line 88) and its finalization
StartOwners == {t \in Threads : pc[t] \in ClaimedPcs \cup {"finalize"}}

\* threads between claiming a stop (line 155) and its final reset
StopOwners == {t \in Threads : pc[t] \in StopPcs \ {"stop_w_stop"}}

\* C15: startInProgress is true exactly when one thread is between claiming
\* the start and its finalization, stopInProgress exactly when one thread is
\* between claiming the stop and its reset; never two threads in either
\* sequence.
C15_FlagsCountOwners ==
    /\ Cardinality(StartOwners) = IF start_in_progress THEN 1 ELSE 0
    /\ Cardinality(StopOwners) = IF stop_in_progress THEN 1 ELSE 0

\* one thread is polling in its start and another is in the terminate
\* sequence of its stop
C15_Witness ==
    /\ start_in_progress
    /\ stop_in_progress
    /\ \E t, u \in Threads : pc[t] \in PollPcs /\ pc[u] = "stop_wait"

\* C16: no thread claims a start while stopInProgress is true; a start()
\* that arrives while a stop is in progress changes nothing and blocks in
\* line 65, and it leaves that wait only in a state where stopInProgress is
\* false.
C16_StartWaitsForStop ==
    [][/\ (start_in_progress' /\ ~start_in_progress)
            => (~stop_in_progress /\ ~stop_in_progress')
       /\ (ncalls' = ncalls + 1 /\ nStops' = nStops /\ stop_in_progress)
            => /\ \E t \in Threads :
                    pc[t] = "idle" /\ pc'[t] = "start_w_stop" /\ t \in waiters'
               /\ UNCHANGED <<shared, rets>>
       /\ \A t \in Threads :
            (pc[t] = "start_w_stop" /\ pc'[t] # "start_w_stop")
               => (~stop_in_progress /\ t \notin waiters)]_vars

\* a start() arrived during the terminate sequence of a stop() and is
\* blocked in line 65
C16_Witness ==
    \E t, u \in Threads :
      /\ pc[t] = "start_w_stop"
      /\ t \in waiters
      /\ pc[u] \in TermPcs
      /\ stop_in_progress
      /\ ~start_in_progress

\* C17: the readiness prober ends without error only on a health check
\* answered with 200 by the spawned process; every attempt tests
\* stopRequested first and the liveness of the process second, each with an
\* error of its own; a failed health check leads to the next attempt; the
\* only other end is the timeout; and a start whose prober ended without
\* error returns.
C17_Prober ==
    [][\A t \in Threads :
         /\ (pc[t] \in PollPcs /\ pc'[t] = "finalize")
              => \/ /\ pc[t] = "poll_health"
                    /\ err'[t] = NoError
                    /\ Alive(lproc[t])
                    /\ proc'[lproc[t]].ready
                 \/ pc[t] = "poll_check" /\ err'[t] = "canceled" /\ stop_requested
                 \/ pc[t] = "poll_check" /\ err'[t] = "timeout"
                 \/ pc[t] = "poll_alive" /\ err'[t] = "exited" /\ ~Alive(lproc[t])
         /\ (pc[t] = "poll_check" /\ pc'[t] \notin {"poll_check", "finalize"})
              => /\ pc'[t] = "poll_alive"
                 /\ ~stop_requested
                 /\ attempt'[t] = attempt[t] + 1
         /\ (pc[t] = "poll_alive" /\ pc'[t] \notin {"poll_alive", "finalize"})
              => (pc'[t] = "poll_health" /\ Alive(lproc[t]))
         /\ (pc[t] = "poll_health" /\ pc'[t] \notin {"poll_health", "finalize"})
              => (pc'[t] = "poll_check" /\ err'[t] = NoError)
         /\ (pc[t] = "finalize" /\ pc'[t] # "finalize" /\ err[t] = NoError)
              => StartOkStep]_vars

\* two health checks failed and the third was answered with 200: the
\* prober has ended without error on its third attempt
C17_Witness ==
    \E t \in Threads :
      /\ pc[t] = "finalize"
      /\ err[t] = NoError
      /\ attempt[t] = 3
      /\ lproc[t] # NoProc
      /\ proc[IF lproc[t] = NoProc THEN 1 ELSE lproc[t]].ready

C19_RequestedOnlyDuringStop ==
    /\ stop_requested => stop_in_progress
    /\ lastRes # "canceled_pre"

\* a stop() has returned and a start() called after it has claimed the
\* start: both stop flags are false
C19_Witness ==
    /\ nStops >= 1
    /\ lastOp = "stop"
    /\ ~stop_requested
    /\ ~stop_in_progress
    /\ \E t \in Threads : pc[t] = "spawn"

\* C20: the handle of a running process is never dropped: every step that
\* clears or replaces the handle finds the process it referenced exited;
\* hence with the handle absent and no start in progress no child process
\* is running.
C20_NoOrphan ==
    /\ [](process = NoProc /\ ~start_in_progress => AliveProcs = {})
    /\ [][(process # NoProc /\ process' # process)
             => (~Alive(process) /\ proc'[process].st = "exited")]_vars

\* a server was started and confirmed ready, a later stop() terminated it
\* and cleared the handle; nothing is running and nothing is in progress
C20_Witness ==
    /\ process = NoProc
    /\ ~start_in_progress
    /\ ~stop_in_progress
    /\ nStartOk >= 1
    /\ spawns >= 1
    /\ \E p \in Procs : proc[p] = [st |-> "exited", ready |-> TRUE, nterm |-> 1]

\* positions from which the next step of a thread is a `with
\* self._state_cv:` block (lines 62, 102, 111, 149, 164, 180, 199)
LockedPcs == {"idle", "start_w_stop", "start_w_start", "publish",
              "poll_check", "finalize", "stop_w_stop", "stop_w_start",
              "stop_nothing", "stop_final"}

\* positions from which the next step of a thread is a blocking operation:
\* Popen (95), the health request and the sleep (207, 214), send_signal
\* (172), wait (174), kill (177), wait (178), the listing (129) and the
\* pull (134)
BlockingPcs == {"spawn", "poll_health", "stop_term", "stop_wait",
                "stop_kill", "stop_killwait", "pull_list", "pull_fetch"}

\* C21: the five shared fields are read and written only by a thread that
\* holds the lock, and no thread holds the lock while it spawns, sends a
\* signal, waits for an exit, makes a health, listing or fetch request, or
\* sleeps: a thread at a blocking operation does not hold the lock; a step
\* that changes a shared field is a locked block run with the lock
\* available; a step outside the locked blocks changes no shared field,
\* wakes nobody, and where it tests the process it tests the local handle;
\* spawning, signalling and provisioning happen only in blocking steps.
C21_LockDiscipline ==
    /\ [](\A t \in Threads : pc[t] \in BlockingPcs => lock # t)
    /\ [][/\ (shared' # shared \/ waiters' # waiters)
               => \E t \in Threads :
                    /\ pc'[t] # pc[t] \/ t \in waiters' \ waiters
                    /\ pc[t] \in LockedPcs
                    /\ Acquire(t)
          /\ ((spawns' # spawns \/ modelInstalled' # modelInstalled
                 \/ \E p \in Procs : \/ proc'[p].nterm # proc[p].nterm
                                     \/ proc'[p].ready # proc[p].ready)
               => \E t \in Threads : pc'[t] # pc[t] /\ pc[t] \in BlockingPcs)
          /\ \A t \in Threads :
               (pc[t] \notin LockedPcs /\ pc'[t] # pc[t])
                  => /\ UNCHANGED <<shared, waiters, lock>>
                     /\ pc[t] = "stop_check"
                          => pc'[t] = IF Live(lproc[t]) THEN "stop_term"
                                                        ELSE "stop_nothing"
                     /\ pc[t] = "poll_alive"
                          => pc'[t] = IF Alive(lproc[t]) THEN "poll_health"
                                                         ELSE "finalize"
                     /\ pc[t] = "stop_wait"
                          => pc'[t] = IF Alive(lproc[t]) THEN "stop_kill"
                                                         ELSE "stop_final"]_vars

\* one thread is in the health request of its start and another waits for
\* the exit of the process it has killed; the stop was requested under the
\* lock and the lock is free
C21_Witness ==
    \E t, u \in Threads :
      /\ pc[t] = "poll_health"
      /\ pc[u] = "stop_killwait"
      /\ lproc[t] = lproc[u]
      /\ process = lproc[u]
      /\ stop_requested /\ stop_in_progress /\ start_in_progress
      /\ lock = NoThread

====
